---- MODULE Spec2Model ----
(***************************************************************************)
(* BRC-104 cross-language tests: the handshake's signature-data assembly   *)
(* (decode each Base64 nonce, then concatenate) and the BRC-42/43 key      *)
(* derivation the test harnesses exercise.                                 *)
(*                                                                         *)
(* Strings are sequences of character codes (ASCII), byte arrays are       *)
(* sequences of 0..255.  The curve is y^2 = x^3 + 7 (the shape of          *)
(* secp256k1) over a small prime field, so that point addition, scalar     *)
(* multiplication and the reduction modulo the group order are computed,   *)
(* not assumed.                                                            *)
(***************************************************************************)
EXTENDS Integers, Sequences, FiniteSets, Bags, TLC

(***************************************************************************)
(* Bounds of the model.                                                    *)
(***************************************************************************)
\* nonces 0..MaxNonce are drawn as handshake inputs (0: all 0x41, 1: all 0x42)
MaxNonce == 2
\* calls that run at the same time
MaxTasks == 2
\* byte arrays allocated in one run of the tests
MaxArrays == 8

(***************************************************************************)
(* Base64, as the two decoders the tests call compute it.                  *)
(***************************************************************************)
NonceLen == 32
PadChar == 61
SpaceChar == 32

\* the sextet a character stands for in the standard alphabet, -1 if none
StdSextet(c) ==
  IF c >= 65 /\ c <= 90 THEN c - 65
  ELSE IF c >= 97 /\ c <= 122 THEN c - 71
  ELSE IF c >= 48 /\ c <= 57 THEN c + 4
  ELSE IF c = 43 THEN 62
  ELSE IF c = 47 THEN 63
  ELSE -1

\* the character of a sextet in the standard alphabet
StdChar(v) ==
  IF v < 26 THEN v + 65
  ELSE IF v < 52 THEN v + 71
  ELSE IF v < 62 THEN v - 4
  ELSE IF v = 62 THEN 43
  ELSE 47

\* the first nb bytes packed in a sequence of sextets (6 bits each, big end first)
SextetsToBytes(sx, nb) ==
  [j \in 1..nb |->
     LET bit == 8 * (j - 1)
         q   == (bit \div 6) + 1
         r   == bit % 6
     IN  IF r = 0 THEN sx[q] * 4 + (sx[q + 1] \div 16)
         ELSE IF r = 2 THEN (sx[q] % 16) * 16 + (sx[q + 1] \div 4)
         ELSE (sx[q] % 4) * 64 + sx[q + 1]]

\* index of the first TRUE in a sequence of flags, its length + 1 if none
FirstIndex(flags) ==
  LET hits == {i \in 1..Len(flags) : flags[i]}
  IN  IF hits = {} THEN Len(flags) + 1
      ELSE CHOOSE i \in hits : \A k \in hits : i <= k

\* for each character of s, whether it is the pad character
IsPad(s) == [i \in 1..Len(s) |-> s[i] = PadChar]

\* the bytes of a run of unpadded characters: characters outside the alphabet
\* are skipped, a dangling sextet is dropped
ForgivingBytes(body) ==
  LET IsChar(c) == StdSextet(c) >= 0
      kept      == SelectSeq(body, IsChar)
      sx        == [i \in 1..Len(kept) |-> StdSextet(kept[i])]
  IN  SextetsToBytes(sx, (Len(sx) * 6) \div 8)

\* a decoder that resumes after padding and decodes the next padded group too
BufferFromBase64_resuming(data) ==
  LET stop  == FirstIndex(IsPad(data))
      rest  == SubSeq(data, stop + 1, Len(data))
      stop2 == FirstIndex(IsPad(rest))
  IN  ForgivingBytes(SubSeq(data, 1, stop - 1))
        \o ForgivingBytes(SubSeq(rest, 1, stop2 - 1))

\* Buffer.from(data, 'base64'): forgiving; decoding stops at the first '='
BufferFromBase64(data) ==
  LET stop == FirstIndex(IsPad(data))
  IN  ForgivingBytes(SubSeq(data, 1, stop - 1))

\* base64.StdEncoding.DecodeString(s): strict; returns the bytes decoded before
\* the first error together with the error flag
StdDecodeString(s) ==
  LET k    == FirstIndex([i \in 1..Len(s) |-> StdSextet(s[i]) < 0])
      q    == (k - 1) \div 4
      j    == (k - 1) % 4
      sx   == [i \in 1..(k - 1) |-> StdSextet(s[i])]
      Out(nb, e) == [bytes |-> SextetsToBytes(sx, nb), err |-> e]
  IN  IF k > Len(s)
      THEN Out(3 * q, j # 0)
      ELSE IF s[k] # PadChar THEN Out(3 * q, TRUE)
      ELSE IF j < 2 THEN Out(3 * q, TRUE)
      ELSE IF j = 2
           THEN IF k + 1 <= Len(s) /\ s[k + 1] = PadChar
                THEN Out(3 * q + 1, k + 1 < Len(s))
                ELSE Out(3 * q, TRUE)
           ELSE Out(3 * q + 2, k < Len(s))

\* the transport encoding of a byte array (padded standard Base64)
Base64Encode(bytes) ==
  LET n    == Len(bytes)
      B(i) == IF i <= n THEN bytes[i] ELSE 0
      nq   == (n + 2) \div 3
      Quad(g, c) ==
        LET b1 == B(3 * g + 1)
            b2 == B(3 * g + 2)
            b3 == B(3 * g + 3)
        IN  IF c = 1 THEN StdChar(b1 \div 4)
            ELSE IF c = 2 THEN StdChar((b1 % 4) * 16 + (b2 \div 16))
            ELSE IF c = 3
                 THEN IF 3 * g + 2 > n THEN PadChar
                      ELSE StdChar((b2 % 16) * 4 + (b3 \div 64))
            ELSE IF 3 * g + 3 > n THEN PadChar ELSE StdChar(b3 % 64)
  IN  [i \in 1..(4 * nq) |-> Quad((i - 1) \div 4, ((i - 1) % 4) + 1)]

\* a sequence of k copies of the sequence s
RECURSIVE Repeat(_, _)
Repeat(s, k) == IF k = 0 THEN <<>> ELSE s \o Repeat(s, k - 1)

\* the shared test constants
INITIAL_NONCE_B64 == Repeat(<<81, 85, 70, 66>>, 10) \o <<81, 85, 69, 61>>
SESSION_NONCE_B64 == Repeat(<<81, 107, 74, 67>>, 10) \o <<81, 107, 73, 61>>
INITIAL_NONCE_BYTES == [i \in 1..NonceLen |-> 65]
SESSION_NONCE_BYTES == [i \in 1..NonceLen |-> 66]
EXPECTED_SIG_DATA_SIGNING == [i \in 1..64 |-> IF i <= 32 THEN 65 ELSE 66]
EXPECTED_SIG_DATA_VERIFICATION == [i \in 1..64 |-> IF i <= 32 THEN 66 ELSE 65]


(***************************************************************************)
(* Hexadecimal text of keys, as the harnesses print and compare them.      *)
(***************************************************************************)
HexDigit(v) == IF v < 10 THEN 48 + v ELSE 87 + v
HexValue(c) == IF c >= 48 /\ c <= 57 THEN c - 48 ELSE c - 87
HexByte(b) == <<HexDigit(b \div 16), HexDigit(b % 16)>>

(***************************************************************************)
(* The curve adapter: y^2 = x^3 + 7 over GF(p), a group of prime order n   *)
(* with generator G.  Small parameters stand in for secp256k1's.           *)
(***************************************************************************)
Curve == [p |-> 13, b |-> 7, n |-> 7, gx |-> 7, gy |-> 5]
CURVE_ORDER == Curve.n

Infinity == [inf |-> TRUE, x |-> 0, y |-> 0]
Pt(px, py) == [inf |-> FALSE, x |-> px, y |-> py]
G == Pt(Curve.gx, Curve.gy)

ModP(a) == ((a % Curve.p) + Curve.p) % Curve.p
InvP(a) == CHOOSE v \in 1..(Curve.p - 1) : ModP(a * v) = 1

OnCurve(P) == P.inf \/ ModP(P.y * P.y - (P.x * P.x * P.x + Curve.b)) = 0

\* point addition
curve_add(P, Q) ==
  IF P.inf THEN Q
  ELSE IF Q.inf THEN P
  ELSE IF P.x = Q.x /\ ModP(P.y + Q.y) = 0 THEN Infinity
  ELSE LET lam == IF P.x = Q.x
                  THEN ModP(3 * P.x * P.x * InvP(2 * P.y))
                  ELSE ModP((Q.y - P.y) * InvP(Q.x - P.x))
           x3  == ModP(lam * lam - P.x - Q.x)
       IN  Pt(x3, ModP(lam * (P.x - x3) - P.y))

\* scalar multiplication k*P
RECURSIVE curve_multiply(_, _)
curve_multiply(k, P) ==
  IF k = 0 THEN Infinity ELSE curve_add(P, curve_multiply(k - 1, P))

\* PrivateKey.toPublicKey / PubKey(): d*G
public_key(d) == curve_multiply(d, G)

\* the affine points of the group and the scalars of its field
Scalars == 0..(CURVE_ORDER - 1)
Points == {public_key(d) : d \in 1..(CURVE_ORDER - 1)}

\* PrivateKey.toHex / hex.EncodeToString(Serialize()): the scalar, big endian
PrivateKeyToHex(d) == HexByte(d)

\* PublicKey.toString / ToDERHex: the compressed encoding, parity prefix then x
PublicKeyToHex(P) ==
  IF P.inf THEN HexByte(0)
  ELSE HexByte(2 + (P.y % 2)) \o HexByte(P.x)

\* PublicKey.fromString / PublicKeyFromString: decompression; Infinity stands
\* for a string that names no point of the curve
PublicKeyFromString(h) ==
  IF Len(h) # 4 THEN Infinity
  ELSE LET prefix == HexValue(h[1]) * 16 + HexValue(h[2])
           px     == HexValue(h[3]) * 16 + HexValue(h[4])
           cands  == {P \in Points : P.x = px /\ 2 + (P.y % 2) = prefix}
       IN  IF cands = {} THEN Infinity ELSE CHOOSE P \in cands : TRUE

(***************************************************************************)
(* Results of the fallible operations: a value or one of the error kinds.  *)
(***************************************************************************)
Ok(v) == [ok |-> TRUE, err |-> "", val |-> v]
Fail(kind) == [ok |-> FALSE, err |-> kind, val |-> <<>>]

(***************************************************************************)
(* Invoice Number Builder.                                                 *)
(***************************************************************************)
MaxProtocolNameLen == 400
DashChar == 45

\* "auth message signature"
AuthProtocolName ==
  <<97, 117, 116, 104, 32, 109, 101, 115, 115, 97, 103, 101, 32,
    115, 105, 103, 110, 97, 116, 117, 114, 101>>
PROTOCOL_ID == [securityLevel |-> 2, protocolName |-> AuthProtocolName]

\* a protocol name is written in lower-case letters, digits and spaces, so
\* that the separator cannot occur in it
NameChar(c) == (c >= 97 /\ c <= 122) \/ (c >= 48 /\ c <= 57) \/ c = SpaceChar
ValidProtocolName(name) ==
  /\ Len(name) > 0
  /\ Len(name) <= MaxProtocolNameLen
  /\ \A i \in 1..Len(name) : NameChar(name[i])

\* the invoice string without the separator between name and key id
compute_invoice_number_unseparated(protocol, key_id) ==
  IF ~ValidProtocolName(protocol.protocolName)
  THEN Fail("InvalidProtocolDescriptor")
  ELSE IF Len(key_id) = 0 THEN Fail("InvalidKeyID")
  ELSE Ok(<<48 + protocol.securityLevel, DashChar>> \o protocol.protocolName
          \o key_id)

\* the invoice string built of whatever key id is given, the empty one too
compute_invoice_number_any_key(protocol, key_id) ==
  IF ~ValidProtocolName(protocol.protocolName)
  THEN Fail("InvalidProtocolDescriptor")
  ELSE Ok(<<48 + protocol.securityLevel, DashChar>> \o protocol.protocolName
          \o <<DashChar>> \o key_id)

\* "<securityLevel>-<protocolName>-<keyID>"
compute_invoice_number(protocol, key_id) ==
  IF ~ValidProtocolName(protocol.protocolName)
  THEN Fail("InvalidProtocolDescriptor")
  ELSE IF Len(key_id) = 0 THEN Fail("InvalidKeyID")
  ELSE Ok(<<48 + protocol.securityLevel, DashChar>> \o protocol.protocolName
          \o <<DashChar>> \o key_id)

(***************************************************************************)
(* Branch Scalar Deriver.                                                  *)
(***************************************************************************)
\* a position-weighted checksum (the sum is taken as the cardinality of a bag)
Checksum(s) ==
  BagCardinality([i \in 1..Len(s) |-> s[i] * i])

\* the keyed hash: 16 bits mixing the checksums of the key and the message
hmac_sha256(key, msg) ==
  LET kc == Checksum(key)
      mc == Checksum(msg)
  IN  (((kc * kc + 212) % (2 ^ 16)) * (((mc + kc) % 8191) + 1)) % (2 ^ 16)

\* the branch scalar of whatever reference is given, the identity too
branch_scalar_any_reference(invoice_number, cp_pub) ==
  LET delta == hmac_sha256(PublicKeyToHex(cp_pub), invoice_number)
                 % CURVE_ORDER
  IN  IF delta = 0 THEN Fail("DegenerateScalar") ELSE Ok(delta)

\* the reduced HMAC value returned as it is, zero included
branch_scalar_unchecked(invoice_number, cp_pub) ==
  IF cp_pub.inf THEN Fail("InvalidReferencePoint")
  ELSE Ok(hmac_sha256(PublicKeyToHex(cp_pub), invoice_number) % CURVE_ORDER)

\* HMAC over the reference point and the invoice number, reduced modulo n
branch_scalar(invoice_number, cp_pub) ==
  IF cp_pub.inf THEN Fail("InvalidReferencePoint")
  ELSE LET delta == hmac_sha256(PublicKeyToHex(cp_pub), invoice_number)
                      % CURVE_ORDER
       IN  IF delta = 0 THEN Fail("DegenerateScalar") ELSE Ok(delta)

(***************************************************************************)
(* Key Deriver.                                                            *)
(***************************************************************************)
Self == [type |-> "self", key |-> Infinity]
Anyone == [type |-> "anyone", key |-> Infinity]
OtherParty(Q) == [type |-> "other", key |-> Q]

\* the fixed "anyone" base point
AnyonePoint == public_key(1)

\* "anyone" resolved to the root's own public key
to_public_key_anyone_as_root(counterparty, root_pub) ==
  IF counterparty.type = "other" THEN counterparty.key ELSE root_pub

\* Counterparty.to_public_key(root_pub)
to_public_key(counterparty, root_pub) ==
  IF counterparty.type = "self" THEN root_pub
  ELSE IF counterparty.type = "anyone" THEN AnyonePoint
  ELSE counterparty.key

\* the sum of the root scalar and the branch scalar, left unreduced
deriveChild_unreduced(root_priv, delta) == root_priv + delta

\* rootKey.deriveChild: (root_priv + delta) mod n
deriveChild(root_priv, delta) == (root_priv + delta) % CURVE_ORDER

\* the private derivation with Self taken as the root's own public point
derivePrivateKey_self_as_root(root_priv, protocol, key_id, counterparty) ==
  LET invoice == compute_invoice_number(protocol, key_id)
  IN  IF ~invoice.ok THEN invoice
      ELSE LET cp_pub == to_public_key(counterparty, public_key(root_priv))
               delta  == branch_scalar(invoice.val, cp_pub)
           IN  IF ~delta.ok THEN Fail("DerivationFailed")
               ELSE Ok(deriveChild(root_priv, delta.val))

\* derivePrivateKey(root, protocol, keyID, counterparty) -> scalar
derivePrivateKey(root_priv, protocol, key_id, counterparty) ==
  IF counterparty.type = "self"
  THEN Fail("InvalidCounterpartyForPrivateDerivation")
  ELSE LET invoice == compute_invoice_number(protocol, key_id)
       IN  IF ~invoice.ok THEN invoice
           ELSE LET cp_pub == to_public_key(counterparty, public_key(root_priv))
                    delta  == branch_scalar(invoice.val, cp_pub)
                IN  IF ~delta.ok THEN Fail("DerivationFailed")
                    ELSE Ok(deriveChild(root_priv, delta.val))

\* for_self with the branch scalar keyed on the root's own public point
derive_for_self_own_reference(root_priv, invoice_number, cp_pub) ==
  LET delta == branch_scalar(invoice_number, public_key(root_priv))
  IN  IF ~delta.ok THEN delta
      ELSE Ok(public_key(deriveChild(root_priv, delta.val)))

\* for_self: derive the private key first, then take its public key
derive_for_self(root_priv, invoice_number, cp_pub) ==
  LET delta == branch_scalar(invoice_number, cp_pub)
  IN  IF ~delta.ok THEN delta
      ELSE Ok(public_key(deriveChild(root_priv, delta.val)))

\* not for_self: tweaked public = cp_pub + delta*G
derive_for_counterparty(invoice_number, cp_pub) ==
  LET delta == branch_scalar(invoice_number, cp_pub)
  IN  IF ~delta.ok THEN delta
      ELSE LET delta_point == curve_multiply(delta.val, G)
           IN  Ok(curve_add(cp_pub, delta_point))

\* the defect repaired: the fixed derivation of both branches
derive_public_key_repaired(root_priv, protocol, key_id, counterparty, for_self) ==
  LET invoice == compute_invoice_number(protocol, key_id)
  IN  IF ~invoice.ok THEN invoice
      ELSE LET cp_pub == to_public_key(counterparty, public_key(root_priv))
           IN  IF for_self
               THEN derive_for_self(root_priv, invoice.val, cp_pub)
               ELSE derive_for_counterparty(invoice.val, cp_pub)

\* the reported defect: for_self keys the branch scalar on the root's own
\* public key and adds delta*G to it directly
derive_public_key_buggy(root_priv, protocol, key_id, counterparty, for_self) ==
  LET invoice  == compute_invoice_number(protocol, key_id)
      root_pub == public_key(root_priv)
  IN  IF ~invoice.ok THEN invoice
      ELSE LET cp_pub == IF ~for_self
                         THEN to_public_key(counterparty, root_pub)
                         ELSE root_pub
               delta  == branch_scalar(invoice.val, cp_pub)
           IN  IF ~delta.ok THEN delta
               ELSE LET delta_point == curve_multiply(delta.val, G)
                    IN  IF for_self
                        THEN Ok(curve_add(root_pub, delta_point))
                        ELSE Ok(curve_add(cp_pub, delta_point))

\* the defective derivation in place of the fixed one
derive_public_key_own_point(root_priv, protocol, key_id, counterparty, for_self) ==
  derive_public_key_buggy(root_priv, protocol, key_id, counterparty, for_self)

\* not for_self added to the root's own public point
derive_public_key_root_base(root_priv, protocol, key_id, counterparty, for_self) ==
  LET invoice  == compute_invoice_number(protocol, key_id)
      root_pub == public_key(root_priv)
  IN  IF ~invoice.ok THEN invoice
      ELSE LET cp_pub == to_public_key(counterparty, root_pub)
               delta  == branch_scalar(invoice.val, cp_pub)
           IN  IF for_self
               THEN derive_for_self(root_priv, invoice.val, cp_pub)
               ELSE IF ~delta.ok THEN delta
               ELSE Ok(curve_add(root_pub, curve_multiply(delta.val, G)))

\* for_self dropped: the counterparty's branch whatever the flag
derive_public_key_flag_ignored(root_priv, protocol, key_id, counterparty, for_self) ==
  LET invoice  == compute_invoice_number(protocol, key_id)
      root_pub == public_key(root_priv)
  IN  IF ~invoice.ok THEN invoice
      ELSE derive_for_counterparty(invoice.val,
                                   to_public_key(counterparty, root_pub))

\* derivePublicKey(root, protocol, keyID, counterparty, forSelf) -> point
derive_public_key(root_priv, protocol, key_id, counterparty, for_self) ==
  LET invoice  == compute_invoice_number(protocol, key_id)
      root_pub == public_key(root_priv)
  IN  IF ~invoice.ok THEN invoice
      ELSE LET cp_pub == to_public_key(counterparty, root_pub)
           IN  IF for_self
               THEN derive_for_self(root_priv, invoice.val, cp_pub)
               ELSE derive_for_counterparty(invoice.val, cp_pub)

(***************************************************************************)
(* Handshake Nonce Assembler and key identifier.                           *)
(***************************************************************************)
\* the two nonces in the order of the verification payload
makeKeyId_session_first(initialNonce, sessionNonce) ==
  sessionNonce \o <<SpaceChar>> \o initialNonce

\* the key id of the two nonces whatever their roles: the one that comes
\* first in the order of the character codes is written first
ComesFirst(a, b) ==
  LET n == IF Len(a) < Len(b) THEN Len(a) ELSE Len(b)
      differing == {i \in 1..n : a[i] # b[i]}
  IN  IF differing = {} THEN Len(a) <= Len(b)
      ELSE LET k == CHOOSE i \in differing : \A j \in differing : i <= j
           IN  a[k] < b[k]
makeKeyId_unordered(initialNonce, sessionNonce) ==
  IF ComesFirst(initialNonce, sessionNonce)
  THEN initialNonce \o <<SpaceChar>> \o sessionNonce
  ELSE sessionNonce \o <<SpaceChar>> \o initialNonce

\* Key ID format: "{initial_nonce} {session_nonce}"
makeKeyId(initialNonce, sessionNonce) ==
  initialNonce \o <<SpaceChar>> \o sessionNonce

\* globalThis.Buffer: constants.ts dereferences Buffer when it is loaded, so
\* the test module runs only where the constructor exists
BufferCtor == TRUE

\* buggyBase64ToBytes(data): one decode of whatever string it is given
buggyBase64ToBytes(data) ==
  IF BufferCtor THEN BufferFromBase64(data) ELSE <<>>

\* the old approach: concatenate the strings, then decode once
correctSignatureDataPrep_concat(nonce1, nonce2) ==
  buggyBase64ToBytes(nonce1 \o nonce2)

\* correctSignatureDataPrep(nonce1, nonce2): decode each, then concatenate
correctSignatureDataPrep(nonce1, nonce2) ==
  IF BufferCtor
  THEN LET bytes1 == BufferFromBase64(nonce1)
           bytes2 == BufferFromBase64(nonce2)
       IN  bytes1 \o bytes2
  ELSE <<>>

\* the Go reference: DecodeString each nonce, t.Fatalf on an error, append
GoSignatureDataPrep(nonce1, nonce2) ==
  LET first  == StdDecodeString(nonce1)
      second == StdDecodeString(nonce2)
  IN  IF first.err \/ second.err
      THEN [fatal |-> TRUE, data |-> <<>>]
      ELSE [fatal |-> FALSE, data |-> first.bytes \o second.bytes]

\* the Go test's incorrect approach: the error of DecodeString is discarded
GoIncorrectSigData(nonce1, nonce2) == StdDecodeString(nonce1 \o nonce2).bytes

(***************************************************************************)
(* Byte arrays in memory.  The heap is the sequence of the arrays allocated *)
(* so far; a slice views the first len elements of one of them and may grow *)
(* in place up to cap.                                                      *)
(***************************************************************************)
Zeros(n) == [i \in 1..n |-> 0]
\* the bytes a slice views
View(heap, s) == IF s.array = 0 THEN <<>> ELSE SubSeq(heap[s.array], 1, s.len)
\* a new array holding bytes and room for cap elements, and the slice on it
Allocate(heap, bytes, cap) ==
  [heap |-> Append(heap, bytes \o Zeros(cap - Len(bytes))),
   slice |-> [array |-> Len(heap) + 1, len |-> Len(bytes), cap |-> cap]]

\* a slice literal made with room for as many elements again
literal_slice_spare(heap, bytes) == Allocate(heap, bytes, 2 * Len(bytes))

\* []byte{...}: an array of exactly the listed elements
literal_slice(heap, bytes) == Allocate(heap, bytes, Len(bytes))

\* base64.StdEncoding.DecodeString: a buffer of DecodedLen(len(s)) bytes, of
\* which the slice returned views the bytes decoded
go_decode(heap, str) ==
  Allocate(heap, StdDecodeString(str).bytes, (Len(str) \div 4) * 3)

\* append(s, t...): in place when the capacity of s suffices, else into a
\* new array of the needed length or of twice the old capacity
go_append(heap, s, t) ==
  LET elems  == View(heap, t)
      needed == s.len + Len(elems)
  IN  IF needed <= s.cap
      THEN [heap |-> [heap EXCEPT ![s.array] =
                        SubSeq(heap[s.array], 1, s.len) \o elems
                          \o SubSeq(heap[s.array], needed + 1, s.cap)],
            slice |-> [array |-> s.array, len |-> needed, cap |-> s.cap]]
      ELSE Allocate(heap, View(heap, s) \o elems,
                    IF needed > 2 * s.cap THEN needed ELSE 2 * s.cap)

\* [...a, ...b]: a new array of the elements of both
ts_spread(heap, a, b) ==
  Allocate(heap, View(heap, a) \o View(heap, b), a.len + b.len)

(***************************************************************************)
(* Inputs.                                                                 *)
(***************************************************************************)
Parties == {"A", "B"}
TaskIds == 1..MaxTasks
Peer(p) == IF p = "A" THEN "B" ELSE "A"

\* the raw bytes of nonce k
NonceBytes(k) ==
  IF k = 0 THEN INITIAL_NONCE_BYTES
  ELSE IF k = 1 THEN SESSION_NONCE_BYTES
  ELSE [i \in 1..NonceLen |-> (k * 53 + i * (2 * k + 1) * 7) % 256]

NonceIds == 0..MaxNonce
WellFormedNonces == {Base64Encode(NonceBytes(k)) : k \in NonceIds}

\* transport strings a peer may send that are not the encoding of 32 bytes:
\* 31 bytes, a missing pad character, a character outside the alphabet
ShortNonce == Base64Encode(SubSeq(INITIAL_NONCE_BYTES, 1, NonceLen - 1))
UnpaddedNonce == SubSeq(SESSION_NONCE_B64, 1, Len(SESSION_NONCE_B64) - 1)
BadCharNonce == <<33>> \o SubSeq(INITIAL_NONCE_B64, 2, Len(INITIAL_NONCE_B64))
MalformedNonces == {ShortNonce, UnpaddedNonce, BadCharNonce}

EmptyNameProtocol == [securityLevel |-> 2, protocolName |-> <<>>]
Protocols == {PROTOCOL_ID, EmptyNameProtocol}

\* protocol names a caller may pass: "auth message signature", two of its
\* prefixes "auth message" and "auth", "auth-message", the empty name and a
\* name one character longer than the maximum
InvoiceNames ==
  {AuthProtocolName, SubSeq(AuthProtocolName, 1, 12),
   SubSeq(AuthProtocolName, 1, 4),
   SubSeq(AuthProtocolName, 1, 4) \o <<DashChar>>
     \o SubSeq(AuthProtocolName, 6, 12),
   <<>>, [i \in 1..(MaxProtocolNameLen + 1) |-> 97]}
SecurityLevels == 0..2
InvoiceProtocols ==
  [securityLevel : SecurityLevels, protocolName : InvoiceNames]

\* key ids a caller may pass: none, the handshake's, "k", " signaturek" and
\* "message-k"
InvoiceKeyIds ==
  {<<>>, makeKeyId(INITIAL_NONCE_B64, SESSION_NONCE_B64), <<107>>,
   SubSeq(AuthProtocolName, 13, 22) \o <<107>>,
   SubSeq(AuthProtocolName, 6, 12) \o <<DashChar, 107>>}

Counterparties(Q) == {Self, Anyone, OtherParty(Q), OtherParty(Infinity)}

(***************************************************************************)
(* State.                                                                  *)
(***************************************************************************)
VARIABLES
  rootKeys,          \* the root private scalar of each party's KeyDeriver
  protocolID,        \* the protocol descriptor of the session
  initialNonce,      \* transport string of the initiator's nonce
  sessionNonce,      \* transport string of the responder's nonce
  keyID,             \* the key identifier, empty until makeKeyId has run
  sigData,           \* the last signing payload assembled
  verifyData,        \* the last verification payload assembled
  incorrectSigData,  \* the last result of the concatenate-then-decode path
  last,              \* the last call of a Key Deriver operation, with its result
  results,           \* each party's output of the derivation harness
  pythonSdk,         \* the Python SDK installed: "current" or "fixed"
  comparison,        \* the last run of compare_key_derivation.sh
  tasks,             \* the calls in progress, each with its local variables
  mem                \* the byte arrays allocated and the slices that view them

vars == <<rootKeys, protocolID, initialNonce, sessionNonce, keyID, sigData,
          verifyData, incorrectSigData, last, results, pythonSdk, comparison,
          tasks, mem>>

NoData == [impl |-> "none", fatal |-> FALSE, data |-> <<>>]
NoCall == [op |-> "none", party |-> "", keyID |-> <<>>, counterparty |-> Self,
           forSelf |-> FALSE, result |-> Fail(""), repeated |-> FALSE]

\* whether the call now made is the call `last` records
SameCall(op, p, cp, forSelf) ==
  /\ last.op = op
  /\ last.party = p
  /\ last.keyID = keyID
  /\ last.counterparty = cp
  /\ last.forSelf = forSelf

NoResults == [status |-> "none", keyID |-> <<>>, privateKeyHex |-> <<>>,
              publicKeyForSelfHex |-> <<>>, publicKeyNotForSelfHex |-> <<>>,
              publicKeyFromPrivateHex |-> <<>>]

\* the comparison script has not run
NoComparison == [status |-> "none", python |-> NoResults,
                 typescript |-> NoResults, go |-> NoResults,
                 priv_match |-> FALSE, pub_self_match |-> FALSE,
                 pub_not_self_match |-> FALSE]

\* no call is in progress
IdleTask ==
  [pc |-> "idle", op |-> "none", keyID |-> <<>>, counterparty |-> Self,
   forSelf |-> FALSE, nonce1 |-> <<>>, nonce2 |-> <<>>,
   invoice_number |-> Fail(""), cp_pub |-> Infinity, delta |-> Fail(""),
   bytes1 |-> <<>>, bytes2 |-> <<>>, result |-> Fail(""),
   concurrent |-> FALSE]
NoTasks == [t \in TaskIds |-> IdleTask]

\* no byte array has been allocated
NilSlice == [array |-> 0, len |-> 0, cap |-> 0]
NoMemory == [heap |-> <<>>, initial |-> NilSlice, session |-> NilSlice,
             sigData |-> NilSlice, sigImpl |-> "none",
             verifyData |-> NilSlice, verifyImpl |-> "none"]

InitResults ==
  /\ comparison = NoComparison
  /\ keyID = <<>>
  /\ sigData = NoData
  /\ verifyData = NoData
  /\ incorrectSigData = NoData
  /\ last = NoCall
  /\ results = [p \in Parties |-> NoResults]

InitOutputs ==
  /\ tasks = NoTasks
  /\ mem = NoMemory
  /\ InitResults

\* the root keys of the test scenario: TEST_PRIVATE_KEY_WIF, and the scalar 1
\* whose public key, the generator, is TEST_COUNTERPARTY_KEY
TestRootKeys == [p \in Parties |-> IF p = "A" THEN 6 ELSE 1]

\* every pair of transport strings, the fixed test identity
InitAssembly ==
  /\ pythonSdk = "current"
  /\ rootKeys = TestRootKeys
  /\ protocolID = PROTOCOL_ID
  /\ initialNonce \in WellFormedNonces \cup MalformedNonces
  /\ sessionNonce \in WellFormedNonces \cup MalformedNonces
  /\ InitOutputs

\* every pair of root identities, the fixed test protocol and nonces
InitKeys ==
  /\ pythonSdk = "current"
  /\ rootKeys \in [Parties -> 1..(CURVE_ORDER - 1)]
  /\ protocolID = PROTOCOL_ID
  /\ initialNonce = INITIAL_NONCE_B64
  /\ sessionNonce = SESSION_NONCE_B64
  /\ InitOutputs

\* every protocol descriptor a caller may pass, the test identities
InitInvoice ==
  /\ pythonSdk = "current"
  /\ rootKeys = TestRootKeys
  /\ protocolID \in InvoiceProtocols
  /\ initialNonce = INITIAL_NONCE_B64
  /\ sessionNonce = SESSION_NONCE_B64
  /\ InitOutputs

\* every pair of identities, the Python SDK as reported or fixed
InitCompare ==
  /\ pythonSdk \in {"current", "fixed"}
  /\ rootKeys \in [Parties -> 1..(CURVE_ORDER - 1)]
  /\ protocolID = PROTOCOL_ID
  /\ initialNonce = INITIAL_NONCE_B64
  /\ sessionNonce = SESSION_NONCE_B64
  /\ InitOutputs

\* the test identities after the key id has been made, no call in progress
InitConcurrent ==
  /\ pythonSdk = "current"
  /\ rootKeys = TestRootKeys
  /\ protocolID = PROTOCOL_ID
  /\ initialNonce = INITIAL_NONCE_B64
  /\ sessionNonce = SESSION_NONCE_B64
  /\ keyID = makeKeyId(INITIAL_NONCE_B64, SESSION_NONCE_B64)
  /\ tasks = NoTasks
  /\ mem = NoMemory
  /\ comparison = NoComparison
  /\ sigData = NoData
  /\ verifyData = NoData
  /\ incorrectSigData = NoData
  /\ last = NoCall
  /\ results = [p \in Parties |-> NoResults]

\* the package-level nonce arrays of a pair of nonces, nothing assembled
InitMemory ==
  /\ pythonSdk = "current"
  /\ rootKeys = TestRootKeys
  /\ protocolID = PROTOCOL_ID
  /\ initialNonce \in WellFormedNonces
  /\ sessionNonce \in WellFormedNonces
  /\ tasks = NoTasks
  /\ InitResults
  /\ LET first  == literal_slice(<<>>, BufferFromBase64(initialNonce))
         second == literal_slice(first.heap, BufferFromBase64(sessionNonce))
     IN  mem = [NoMemory EXCEPT !.heap = second.heap,
                                !.initial = first.slice,
                                !.session = second.slice]

\* the test scenario
Init ==
  /\ pythonSdk = "current"
  /\ rootKeys = TestRootKeys
  /\ protocolID = PROTOCOL_ID
  /\ initialNonce = INITIAL_NONCE_B64
  /\ sessionNonce = SESSION_NONCE_B64
  /\ InitOutputs

(***************************************************************************)
(* Operations.                                                             *)
(***************************************************************************)
\* keyID: makeKeyId(INITIAL_NONCE_B64, SESSION_NONCE_B64)
MakeKeyId ==
  /\ keyID' = makeKeyId(initialNonce, sessionNonce)
  /\ UNCHANGED <<rootKeys, protocolID, initialNonce, sessionNonce, sigData,
                 verifyData, incorrectSigData, last, results,
                 pythonSdk, comparison, tasks, mem>>

\* signing: [...base64ToBytes(initialNonce), ...base64ToBytes(sessionNonce)]
SignTS ==
  /\ sigData' = [impl |-> "ts", fatal |-> FALSE,
                 data |-> correctSignatureDataPrep(initialNonce, sessionNonce)]
  /\ UNCHANGED <<rootKeys, protocolID, initialNonce, sessionNonce, keyID,
                 verifyData, incorrectSigData, last, results,
                 pythonSdk, comparison, tasks, mem>>

\* verification assembled in the order of signing
VerifyTS_signing_order ==
  /\ verifyData' = [impl |-> "ts", fatal |-> FALSE,
                    data |-> correctSignatureDataPrep(initialNonce, sessionNonce)]
  /\ UNCHANGED <<rootKeys, protocolID, initialNonce, sessionNonce, keyID,
                 sigData, incorrectSigData, last, results,
                 pythonSdk, comparison, tasks, mem>>

\* verification: [...base64ToBytes(sessionNonce), ...base64ToBytes(initialNonce)]
VerifyTS ==
  /\ verifyData' = [impl |-> "ts", fatal |-> FALSE,
                    data |-> correctSignatureDataPrep(sessionNonce, initialNonce)]
  /\ UNCHANGED <<rootKeys, protocolID, initialNonce, sessionNonce, keyID,
                 sigData, incorrectSigData, last, results,
                 pythonSdk, comparison, tasks, mem>>

\* sigData := append(initialBytes, sessionBytes...)
SignGo ==
  /\ sigData' = [impl |-> "go"] @@ GoSignatureDataPrep(initialNonce, sessionNonce)
  /\ UNCHANGED <<rootKeys, protocolID, initialNonce, sessionNonce, keyID,
                 verifyData, incorrectSigData, last, results,
                 pythonSdk, comparison, tasks, mem>>

\* the Go verification payload assembled in the order of signing
VerifyGo_signing_order ==
  /\ verifyData' = [impl |-> "go"] @@ GoSignatureDataPrep(initialNonce, sessionNonce)
  /\ UNCHANGED <<rootKeys, protocolID, initialNonce, sessionNonce, keyID,
                 sigData, incorrectSigData, last, results,
                 pythonSdk, comparison, tasks, mem>>

\* verifyData := append(sessionBytes, initialBytes...)
VerifyGo ==
  /\ verifyData' = [impl |-> "go"] @@ GoSignatureDataPrep(sessionNonce, initialNonce)
  /\ UNCHANGED <<rootKeys, protocolID, initialNonce, sessionNonce, keyID,
                 sigData, incorrectSigData, last, results,
                 pythonSdk, comparison, tasks, mem>>

\* the historical test with each string decoded on its own
ConcatThenDecodeTS_separately ==
  /\ incorrectSigData' =
       [impl |-> "ts", fatal |-> FALSE,
        data |-> buggyBase64ToBytes(initialNonce)
                   \o buggyBase64ToBytes(sessionNonce)]
  /\ UNCHANGED <<rootKeys, protocolID, initialNonce, sessionNonce, keyID,
                 sigData, verifyData, last, results,
                 pythonSdk, comparison, tasks, mem>>

\* the old approach: base64ToBytes(initialNonce + sessionNonce)
ConcatThenDecodeTS ==
  /\ incorrectSigData' =
       [impl |-> "ts", fatal |-> FALSE,
        data |-> buggyBase64ToBytes(initialNonce \o sessionNonce)]
  /\ UNCHANGED <<rootKeys, protocolID, initialNonce, sessionNonce, keyID,
                 sigData, verifyData, last, results,
                 pythonSdk, comparison, tasks, mem>>

ConcatThenDecodeGo ==
  /\ incorrectSigData' =
       [impl |-> "go", fatal |-> FALSE,
        data |-> GoIncorrectSigData(initialNonce, sessionNonce)]
  /\ UNCHANGED <<rootKeys, protocolID, initialNonce, sessionNonce, keyID,
                 sigData, verifyData, last, results,
                 pythonSdk, comparison, tasks, mem>>

\* the caller passes the key id k
ChooseKeyId(k) ==
  /\ keyID' = k
  /\ UNCHANGED <<rootKeys, protocolID, initialNonce, sessionNonce, sigData,
                 verifyData, incorrectSigData, last, results,
                 pythonSdk, comparison, tasks, mem>>

\* this.computeInvoiceNumber(protocolID, keyID)
ComputeInvoiceNumber ==
  /\ last' = [op |-> "computeInvoiceNumber", party |-> "A", keyID |-> keyID,
              counterparty |-> Self, forSelf |-> FALSE,
              result |-> compute_invoice_number(protocolID, keyID),
              repeated |-> SameCall("computeInvoiceNumber", "A", Self, FALSE)]
  /\ UNCHANGED <<rootKeys, protocolID, initialNonce, sessionNonce, keyID,
                 sigData, verifyData, incorrectSigData, results,
                 pythonSdk, comparison, tasks, mem>>

\* a private derivation that keeps the derived scalar as the deriver's root
DerivePrivateKey_rekeying(p, cp) ==
  LET derived == derivePrivateKey(rootKeys[p], protocolID, keyID, cp)
  IN  /\ last' = [op |-> "derivePrivateKey", party |-> p, keyID |-> keyID,
                  counterparty |-> cp, forSelf |-> FALSE, result |-> derived,
                  repeated |-> SameCall("derivePrivateKey", p, cp, FALSE)]
      /\ rootKeys' = IF derived.ok /\ derived.val # 0
                     THEN [rootKeys EXCEPT ![p] = derived.val]
                     ELSE rootKeys
      /\ UNCHANGED <<protocolID, initialNonce, sessionNonce, keyID,
                     sigData, verifyData, incorrectSigData, results,
                     pythonSdk, comparison, tasks, mem>>

\* keyDeriver.derivePrivateKey(protocolID, keyID, counterparty)
DerivePrivateKey(p, cp) ==
  /\ last' = [op |-> "derivePrivateKey", party |-> p, keyID |-> keyID,
              counterparty |-> cp, forSelf |-> FALSE,
              result |-> derivePrivateKey(rootKeys[p], protocolID, keyID, cp),
              repeated |-> SameCall("derivePrivateKey", p, cp, FALSE)]
  /\ UNCHANGED <<rootKeys, protocolID, initialNonce, sessionNonce, keyID,
                 sigData, verifyData, incorrectSigData, results,
                 pythonSdk, comparison, tasks, mem>>

\* a derivation answered from the harness output of the same key id, whatever
\* the counterparty and the direction
DerivePublicKey_cached(p, cp, forSelf) ==
  /\ last' = [op |-> "derivePublicKey", party |-> p, keyID |-> keyID,
              counterparty |-> cp, forSelf |-> forSelf,
              result |->
                IF results[p].status = "ok" /\ results[p].keyID = keyID
                THEN Ok(PublicKeyFromString(results[p].publicKeyForSelfHex))
                ELSE derive_public_key(rootKeys[p], protocolID, keyID, cp,
                                       forSelf),
              repeated |-> SameCall("derivePublicKey", p, cp, forSelf)]
  /\ UNCHANGED <<rootKeys, protocolID, initialNonce, sessionNonce, keyID,
                 sigData, verifyData, incorrectSigData, results,
                 pythonSdk, comparison, tasks, mem>>

\* keyDeriver.derivePublicKey(protocolID, keyID, counterparty, forSelf)
DerivePublicKey(p, cp, forSelf) ==
  /\ last' = [op |-> "derivePublicKey", party |-> p, keyID |-> keyID,
              counterparty |-> cp, forSelf |-> forSelf,
              result |-> derive_public_key(rootKeys[p], protocolID, keyID, cp,
                                           forSelf),
              repeated |-> SameCall("derivePublicKey", p, cp, forSelf)]
  /\ UNCHANGED <<rootKeys, protocolID, initialNonce, sessionNonce, keyID,
                 sigData, verifyData, incorrectSigData, results,
                 pythonSdk, comparison, tasks, mem>>

\* deriveKeysTypeScript / deriveKeysGo: the three derivations of one party
\* against the other's identity key, printed as hexadecimal text; a failing
\* derivation throws (TypeScript) or panics (Go)
deriveKeys(rootKey, protocol, key_id, counterpartyHex) ==
  LET counterparty == OtherParty(PublicKeyFromString(counterpartyHex))
      derivedPriv  == derivePrivateKey(rootKey, protocol, key_id, counterparty)
      derivedPubForSelf ==
        derive_public_key(rootKey, protocol, key_id, counterparty, TRUE)
      derivedPubNotForSelf ==
        derive_public_key(rootKey, protocol, key_id, counterparty, FALSE)
  IN  IF ~derivedPriv.ok \/ ~derivedPubForSelf.ok \/ ~derivedPubNotForSelf.ok
      THEN [NoResults EXCEPT !.status = "panic", !.keyID = key_id]
      ELSE [status |-> "ok", keyID |-> key_id,
            privateKeyHex |-> PrivateKeyToHex(derivedPriv.val),
            publicKeyForSelfHex |-> PublicKeyToHex(derivedPubForSelf.val),
            publicKeyNotForSelfHex |-> PublicKeyToHex(derivedPubNotForSelf.val),
            publicKeyFromPrivateHex |->
              PublicKeyToHex(public_key(derivedPriv.val))]

DeriveKeys(p) ==
  /\ results' = [results EXCEPT ![p] =
       deriveKeys(rootKeys[p], protocolID, keyID,
                  PublicKeyToHex(public_key(rootKeys[Peer(p)])))]
  /\ UNCHANGED <<rootKeys, protocolID, initialNonce, sessionNonce, keyID,
                 sigData, verifyData, incorrectSigData, last,
                 pythonSdk, comparison, tasks, mem>>

\* the KeyDerivationResult of a harness run: the derived keys as hexadecimal
\* text, or a panic when a call has failed
KeyDerivationResult(key_id, derivedPriv, derivedPubForSelf, derivedPubNotForSelf) ==
  IF ~derivedPriv.ok \/ ~derivedPubForSelf.ok \/ ~derivedPubNotForSelf.ok
  THEN [NoResults EXCEPT !.status = "panic", !.keyID = key_id]
  ELSE [status |-> "ok", keyID |-> key_id,
        privateKeyHex |-> PrivateKeyToHex(derivedPriv.val),
        publicKeyForSelfHex |-> PublicKeyToHex(derivedPubForSelf.val),
        publicKeyNotForSelfHex |-> PublicKeyToHex(derivedPubNotForSelf.val),
        publicKeyFromPrivateHex |->
          PublicKeyToHex(public_key(derivedPriv.val))]

\* deriveKeysGo: the Go harness; every failing call panics
deriveKeysGo(rootKey, protocol, key_id, counterpartyHex) ==
  LET counterparty == OtherParty(PublicKeyFromString(counterpartyHex))
  IN  KeyDerivationResult(
        key_id,
        derivePrivateKey(rootKey, protocol, key_id, counterparty),
        derive_public_key(rootKey, protocol, key_id, counterparty, TRUE),
        derive_public_key(rootKey, protocol, key_id, counterparty, FALSE))

\* KeyDeriver.derive_public_key of the Python SDK, as reported ("current") or
\* with the fix applied ("fixed")
python_derive_public_key(sdk, root_priv, protocol, key_id, counterparty, for_self) ==
  IF sdk = "current"
  THEN derive_public_key_buggy(root_priv, protocol, key_id, counterparty,
                               for_self)
  ELSE derive_public_key(root_priv, protocol, key_id, counterparty, for_self)

\* test_key_derivation.py: the Python harness
deriveKeysPython(sdk, rootKey, protocol, key_id, counterpartyHex) ==
  LET counterparty == OtherParty(PublicKeyFromString(counterpartyHex))
  IN  KeyDerivationResult(
        key_id,
        derivePrivateKey(rootKey, protocol, key_id, counterparty),
        python_derive_public_key(sdk, rootKey, protocol, key_id, counterparty,
                                 TRUE),
        python_derive_public_key(sdk, rootKey, protocol, key_id, counterparty,
                                 FALSE))

\* the comparison of the TypeScript and Go outputs alone
compare_outputs_without_python(python_data, typescript_data, go_data) ==
  LET priv_match ==
        typescript_data.privateKeyHex = go_data.privateKeyHex
      pub_self_match ==
        typescript_data.publicKeyForSelfHex = go_data.publicKeyForSelfHex
      pub_not_self_match ==
        typescript_data.publicKeyNotForSelfHex
          = go_data.publicKeyNotForSelfHex
  IN  [status |-> IF priv_match /\ pub_self_match /\ pub_not_self_match
                  THEN "passed" ELSE "failed",
       python |-> python_data, typescript |-> typescript_data,
       go |-> go_data, priv_match |-> priv_match,
       pub_self_match |-> pub_self_match,
       pub_not_self_match |-> pub_not_self_match]

\* compare_key_derivation.sh, the embedded comparison: each of the three
\* values equal across the Python, TypeScript and Go outputs
compare_outputs(python_data, typescript_data, go_data) ==
  LET priv_match ==
        /\ python_data.privateKeyHex = typescript_data.privateKeyHex
        /\ typescript_data.privateKeyHex = go_data.privateKeyHex
      pub_self_match ==
        /\ python_data.publicKeyForSelfHex
             = typescript_data.publicKeyForSelfHex
        /\ typescript_data.publicKeyForSelfHex = go_data.publicKeyForSelfHex
      pub_not_self_match ==
        /\ python_data.publicKeyNotForSelfHex
             = typescript_data.publicKeyNotForSelfHex
        /\ typescript_data.publicKeyNotForSelfHex
             = go_data.publicKeyNotForSelfHex
  IN  [status |-> IF priv_match /\ pub_self_match /\ pub_not_self_match
                  THEN "passed" ELSE "failed",
       python |-> python_data, typescript |-> typescript_data,
       go |-> go_data, priv_match |-> priv_match,
       pub_self_match |-> pub_self_match,
       pub_not_self_match |-> pub_not_self_match]

\* compare_key_derivation.sh: the three harnesses in turn, the script ending
\* at the first that fails, then the comparison of their outputs
compare_key_derivation(python_data, typescript_data, go_data) ==
  IF python_data.status # "ok"
  THEN [NoComparison EXCEPT !.status = "error", !.python = python_data]
  ELSE IF typescript_data.status # "ok"
  THEN [NoComparison EXCEPT !.status = "error", !.python = python_data,
                            !.typescript = typescript_data]
  ELSE IF go_data.status # "ok"
  THEN [NoComparison EXCEPT !.status = "error", !.python = python_data,
                            !.typescript = typescript_data, !.go = go_data]
  ELSE compare_outputs(python_data, typescript_data, go_data)

\* one run of the script on the root key of party A against party B's key
CompareKeyDerivation ==
  /\ comparison' =
       compare_key_derivation(
         deriveKeysPython(pythonSdk, rootKeys["A"], protocolID, keyID,
                          PublicKeyToHex(public_key(rootKeys["B"]))),
         deriveKeys(rootKeys["A"], protocolID, keyID,
                    PublicKeyToHex(public_key(rootKeys["B"]))),
         deriveKeysGo(rootKeys["A"], protocolID, keyID,
                      PublicKeyToHex(public_key(rootKeys["B"]))))
  /\ UNCHANGED <<rootKeys, protocolID, initialNonce, sessionNonce, keyID,
                 sigData, verifyData, incorrectSigData, last, results,
                 pythonSdk, tasks, mem>>

\* whether a call of another task is in progress
Running(t) == tasks[t].pc \notin {"idle", "done"}
OthersRunning(t) == \E u \in TaskIds \ {t} : Running(u)

\* one step of task t: its record replaced, every other task's left alone
TaskStep(t, task) ==
  /\ tasks' = [tasks EXCEPT ![t] =
       [task EXCEPT !.concurrent = tasks[t].concurrent \/ OthersRunning(t)]]
  /\ UNCHANGED <<rootKeys, protocolID, initialNonce, sessionNonce, keyID,
                 sigData, verifyData, incorrectSigData, last, results,
                 pythonSdk, comparison, mem>>

\* a caller enters derivePrivateKey or derivePublicKey on the root of party A
BeginDerivation(t, op, cp, forSelf) ==
  /\ ~Running(t)
  /\ TaskStep(t, [IdleTask EXCEPT !.pc = "invoice", !.op = op,
                                  !.keyID = keyID, !.counterparty = cp,
                                  !.forSelf = forSelf])

\* a caller enters correctSignatureDataPrep(nonce1, nonce2)
BeginAssembly(t, nonce1, nonce2) ==
  /\ ~Running(t)
  /\ TaskStep(t, [IdleTask EXCEPT !.pc = "decode1",
                                  !.op = "correctSignatureDataPrep",
                                  !.nonce1 = nonce1, !.nonce2 = nonce2])

\* invoice_number = self.compute_invoice_number(protocol, key_id)
StepInvoice(t) ==
  /\ tasks[t].pc = "invoice"
  /\ LET invoice == compute_invoice_number(protocolID, tasks[t].keyID)
     IN  TaskStep(t, IF invoice.ok
                     THEN [tasks[t] EXCEPT !.pc = "cp_pub",
                                           !.invoice_number = invoice]
                     ELSE [tasks[t] EXCEPT !.pc = "done",
                                           !.invoice_number = invoice,
                                           !.result = invoice])

\* cp_pub = counterparty.to_public_key(self._root_public_key)
StepCounterparty(t) ==
  /\ tasks[t].pc = "cp_pub"
  /\ TaskStep(t, [tasks[t] EXCEPT
                    !.pc = "delta",
                    !.cp_pub = to_public_key(tasks[t].counterparty,
                                             public_key(rootKeys["A"]))])

\* delta = self._branch_scalar(invoice_number, cp_pub)
StepBranchScalar(t) ==
  /\ tasks[t].pc = "delta"
  /\ TaskStep(t, [tasks[t] EXCEPT
                    !.pc = "return",
                    !.delta = branch_scalar(tasks[t].invoice_number.val,
                                            tasks[t].cp_pub)])

\* the key a derivation returns, of the root and its local variables
derived_key(root_priv, op, for_self, cp_pub, delta) ==
  IF op = "derivePrivateKey"
  THEN IF ~delta.ok THEN Fail("DerivationFailed")
       ELSE Ok(deriveChild(root_priv, delta.val))
  ELSE IF ~delta.ok THEN delta
  ELSE IF for_self THEN Ok(public_key(deriveChild(root_priv, delta.val)))
  ELSE Ok(curve_add(cp_pub, curve_multiply(delta.val, G)))

\* the return with the branch scalar read from one slot that all calls share
StepReturn_shared_delta(t) ==
  /\ tasks[t].pc = "return"
  /\ TaskStep(t, [tasks[t] EXCEPT
                    !.pc = "done",
                    !.result = derived_key(rootKeys["A"], tasks[t].op,
                                           tasks[t].forSelf, tasks[t].cp_pub,
                                           tasks[1].delta)])

\* return derived_priv.public_key() / return PublicKey(new_point)
StepReturn(t) ==
  /\ tasks[t].pc = "return"
  /\ TaskStep(t, [tasks[t] EXCEPT
                    !.pc = "done",
                    !.result = derived_key(rootKeys["A"], tasks[t].op,
                                           tasks[t].forSelf, tasks[t].cp_pub,
                                           tasks[t].delta)])

\* const bytes1 = Array.from(BufferCtor.from(nonce1, 'base64'))
StepDecodeFirst(t) ==
  /\ tasks[t].pc = "decode1"
  /\ TaskStep(t, [tasks[t] EXCEPT
                    !.pc = "decode2",
                    !.bytes1 = buggyBase64ToBytes(tasks[t].nonce1)])

\* const bytes2 = Array.from(BufferCtor.from(nonce2, 'base64'))
StepDecodeSecond(t) ==
  /\ tasks[t].pc = "decode2"
  /\ TaskStep(t, [tasks[t] EXCEPT
                    !.pc = "concat",
                    !.bytes2 = buggyBase64ToBytes(tasks[t].nonce2)])

\* return [...bytes1, ...bytes2]
StepConcat(t) ==
  /\ tasks[t].pc = "concat"
  /\ TaskStep(t, [tasks[t] EXCEPT
                    !.pc = "done",
                    !.result = Ok(tasks[t].bytes1 \o tasks[t].bytes2)])

\* initialBytes, sessionBytes := DecodeString(...); sigData := append(
\* initialBytes, sessionBytes...)
go_signing(m, nonce1, nonce2) ==
  LET first  == go_decode(m.heap, nonce1)
      second == go_decode(first.heap, nonce2)
      joined == go_append(second.heap, first.slice, second.slice)
  IN  [m EXCEPT !.heap = joined.heap, !.sigData = joined.slice,
                !.sigImpl = "go"]

GoAppendSigning ==
  /\ Len(mem.heap) + 3 <= MaxArrays
  /\ mem' = go_signing(mem, initialNonce, sessionNonce)
  /\ UNCHANGED <<rootKeys, protocolID, initialNonce, sessionNonce, keyID,
                 sigData, verifyData, incorrectSigData, last, results,
                 pythonSdk, comparison, tasks>>

\* verifyData := append(SessionNonceBytes, InitialNonceBytes...)
go_verification(m) ==
  LET joined == go_append(m.heap, m.session, m.initial)
  IN  [m EXCEPT !.heap = joined.heap, !.verifyData = joined.slice,
                !.verifyImpl = "go"]

GoAppendVerification ==
  /\ Len(mem.heap) + 1 <= MaxArrays
  /\ mem' = go_verification(mem)
  /\ UNCHANGED <<rootKeys, protocolID, initialNonce, sessionNonce, keyID,
                 sigData, verifyData, incorrectSigData, last, results,
                 pythonSdk, comparison, tasks>>

\* correctSigData = [...INITIAL_NONCE_BYTES, ...SESSION_NONCE_BYTES]
ts_signing(m) ==
  LET joined == ts_spread(m.heap, m.initial, m.session)
  IN  [m EXCEPT !.heap = joined.heap, !.sigData = joined.slice,
                !.sigImpl = "ts"]

TsSpreadSigning ==
  /\ Len(mem.heap) + 1 <= MaxArrays
  /\ mem' = ts_signing(mem)
  /\ UNCHANGED <<rootKeys, protocolID, initialNonce, sessionNonce, keyID,
                 sigData, verifyData, incorrectSigData, last, results,
                 pythonSdk, comparison, tasks>>

\* verifyData = [...SESSION_NONCE_BYTES, ...INITIAL_NONCE_BYTES]
ts_verification(m) ==
  LET joined == ts_spread(m.heap, m.session, m.initial)
  IN  [m EXCEPT !.heap = joined.heap, !.verifyData = joined.slice,
                !.verifyImpl = "ts"]

TsSpreadVerification ==
  /\ Len(mem.heap) + 1 <= MaxArrays
  /\ mem' = ts_verification(mem)
  /\ UNCHANGED <<rootKeys, protocolID, initialNonce, sessionNonce, keyID,
                 sigData, verifyData, incorrectSigData, last, results,
                 pythonSdk, comparison, tasks>>

NextAssembly ==
  \/ MakeKeyId
  \/ SignTS
  \/ VerifyTS
  \/ SignGo
  \/ VerifyGo
  \/ ConcatThenDecodeTS
  \/ ConcatThenDecodeGo

\* party A drives the Key Deriver directly; both parties run the harness
KeyOperations ==
  \/ \E cp \in Counterparties(public_key(rootKeys["B"])) :
       DerivePrivateKey("A", cp)
  \/ \E cp \in Counterparties(public_key(rootKeys["B"])) :
       \E forSelf \in BOOLEAN : DerivePublicKey("A", cp, forSelf)
  \/ \E p \in Parties : DeriveKeys(p)

NextKeys == MakeKeyId \/ KeyOperations

\* the key id is made of the nonces and the comparison script is run
NextCompare ==
  \/ MakeKeyId
  \/ CompareKeyDerivation

\* several callers use the Key Deriver of party A and the nonce assembly at
\* the same time, their statements interleaved in any order
NextConcurrent ==
  \E t \in TaskIds :
    \/ BeginDerivation(t, "derivePrivateKey",
                       OtherParty(public_key(rootKeys["B"])), FALSE)
    \/ \E forSelf \in BOOLEAN :
         BeginDerivation(t, "derivePublicKey",
                         OtherParty(public_key(rootKeys["B"])), forSelf)
    \/ BeginDerivation(t, "derivePublicKey", Self, TRUE)
    \/ BeginAssembly(t, initialNonce, sessionNonce)
    \/ BeginAssembly(t, sessionNonce, initialNonce)
    \/ StepInvoice(t)
    \/ StepCounterparty(t)
    \/ StepBranchScalar(t)
    \/ StepReturn(t)
    \/ StepDecodeFirst(t)
    \/ StepDecodeSecond(t)
    \/ StepConcat(t)

\* the tests assemble both payloads of the shared nonce arrays, in any order
\* and any number of times
NextMemory ==
  \/ GoAppendSigning
  \/ GoAppendVerification
  \/ TsSpreadSigning
  \/ TsSpreadVerification

\* party A builds invoice numbers and derives keys against party B
NextInvoice ==
  \/ \E k \in InvoiceKeyIds : ChooseKeyId(k)
  \/ ComputeInvoiceNumber
  \/ DerivePrivateKey("A", OtherParty(public_key(rootKeys["B"])))
  \/ \E forSelf \in BOOLEAN :
       DerivePublicKey("A", OtherParty(public_key(rootKeys["B"])), forSelf)

Next == NextAssembly \/ KeyOperations

SpecAssembly == InitAssembly /\ [][NextAssembly]_vars
SpecKeys == InitKeys /\ [][NextKeys]_vars
SpecInvoice == InitInvoice /\ [][NextInvoice]_vars
SpecCompare == InitCompare /\ [][NextCompare]_vars
SpecConcurrent == InitConcurrent /\ [][NextConcurrent]_vars
SpecMemory == InitMemory /\ [][NextMemory]_vars
Spec == Init /\ [][Next]_vars

(***************************************************************************)
(* Properties.                                                             *)
(***************************************************************************)
\* the invoice number and the branch scalar of a derivation in this session
InvoiceOf(key_id) == compute_invoice_number(protocolID, key_id)
DeltaOf(key_id, Q) == branch_scalar(InvoiceOf(key_id).val, Q)
RootPoint(p) == public_key(rootKeys[p])

\* the harness of party p has produced its four keys
Derived(p) == results[p].status = "ok"
\* the branch scalar of party p's harness run, keyed on the peer's identity key
HarnessDelta(p) == DeltaOf(results[p].keyID, RootPoint(Peer(p))).val

\* a transport string that is the padded encoding of a 32-byte nonce, and the
\* nonce it encodes
WellFormed(s) == s \in WellFormedNonces
RawBytes(s) ==
  NonceBytes(CHOOSE k \in NonceIds : Base64Encode(NonceBytes(k)) = s)

\* what the decoder of an implementation makes of one transport string
DecodedBy(impl, s) ==
  IF impl = "go" THEN StdDecodeString(s).bytes ELSE BufferFromBase64(s)
Decodes32(impl, s) ==
  /\ Len(DecodedBy(impl, s)) = NonceLen
  /\ impl = "go" => ~StdDecodeString(s).err

\* C1: self-consistency. Whenever the harness has derived the keys of a party,
\* the public key derived with forSelf = true is the public key of the derived
\* private key, both are P + delta*G and ((d + delta) mod n)*G with delta
\* keyed on the counterparty's point, also when d + delta passes n; and a
\* direct derivePublicKey(forSelf = true) returns the public point of what
\* derivePrivateKey returns for the same arguments.
SelfConsistency ==
  /\ \A p \in Parties :
       Derived(p) =>
         LET delta == HarnessDelta(p)
         IN  /\ results[p].publicKeyForSelfHex
                  = results[p].publicKeyFromPrivateHex
             /\ results[p].publicKeyForSelfHex
                  = PublicKeyToHex(curve_add(RootPoint(p),
                                             curve_multiply(delta, G)))
             /\ results[p].publicKeyForSelfHex
                  = PublicKeyToHex(
                      public_key((rootKeys[p] + delta) % CURVE_ORDER))
  /\ (last.op = "derivePublicKey" /\ last.forSelf /\ last.result.ok) =>
       LET priv == derivePrivateKey(rootKeys[last.party], protocolID,
                                    last.keyID, last.counterparty)
       IN  priv.ok => last.result.val = public_key(priv.val)

\* a harness run in which the sum of root scalar and branch scalar passes n
SelfConsistencyWitness ==
  /\ Derived("A")
  /\ rootKeys["A"] + HarnessDelta("A") >= CURVE_ORDER
  /\ RootPoint("A") # RootPoint("B")

\* C2: signing assembly. For two nonces that each decode to exactly 32 bytes,
\* the signing payload is 64 bytes: the decoded initial nonce followed by the
\* decoded session nonce; for the encodings of two raw nonces it is the first
\* raw nonce followed by the second.
SigningAssembly ==
  sigData.impl # "none" =>
    /\ (Decodes32(sigData.impl, initialNonce)
          /\ Decodes32(sigData.impl, sessionNonce)) =>
         /\ ~sigData.fatal
         /\ Len(sigData.data) = 2 * NonceLen
         /\ SubSeq(sigData.data, 1, NonceLen)
              = DecodedBy(sigData.impl, initialNonce)
         /\ SubSeq(sigData.data, NonceLen + 1, 2 * NonceLen)
              = DecodedBy(sigData.impl, sessionNonce)
    /\ (WellFormed(initialNonce) /\ WellFormed(sessionNonce)) =>
         /\ ~sigData.fatal
         /\ sigData.data = RawBytes(initialNonce) \o RawBytes(sessionNonce)

\* the signing payload of two different nonces, assembled by the TypeScript code
SigningAssemblyWitness ==
  /\ sigData.impl = "ts"
  /\ WellFormed(initialNonce)
  /\ WellFormed(sessionNonce)
  /\ initialNonce # sessionNonce
  /\ Len(sigData.data) = 2 * NonceLen

\* C3: verification assembly. For two nonces that each decode to exactly 32
\* bytes, the verification payload is 64 bytes: the decoded session nonce
\* followed by the decoded initial nonce, which is the signing payload with
\* its two halves exchanged.
VerificationAssembly ==
  verifyData.impl # "none" =>
    /\ (Decodes32(verifyData.impl, initialNonce)
          /\ Decodes32(verifyData.impl, sessionNonce)) =>
         /\ ~verifyData.fatal
         /\ Len(verifyData.data) = 2 * NonceLen
         /\ SubSeq(verifyData.data, 1, NonceLen)
              = DecodedBy(verifyData.impl, sessionNonce)
         /\ SubSeq(verifyData.data, NonceLen + 1, 2 * NonceLen)
              = DecodedBy(verifyData.impl, initialNonce)
    /\ (WellFormed(initialNonce) /\ WellFormed(sessionNonce)) =>
         /\ ~verifyData.fatal
         /\ verifyData.data = RawBytes(sessionNonce) \o RawBytes(initialNonce)
         /\ sigData.impl # "none" =>
              verifyData.data
                = SubSeq(sigData.data, NonceLen + 1, 2 * NonceLen)
                    \o SubSeq(sigData.data, 1, NonceLen)

\* both payloads of two different nonces, the verification one from TypeScript
VerificationAssemblyWitness ==
  /\ verifyData.impl = "ts"
  /\ sigData.impl # "none"
  /\ WellFormed(initialNonce)
  /\ WellFormed(sessionNonce)
  /\ initialNonce # sessionNonce
  /\ Len(verifyData.data) = 2 * NonceLen

\* C4: non-homomorphism. For the transport encodings of two 32-byte nonces,
\* decoding the concatenation of the two strings never gives the 64 bytes
\* obtained by decoding each string and concatenating the results, whichever
\* implementation decodes.
NonHomomorphism ==
  (incorrectSigData.impl # "none"
     /\ WellFormed(initialNonce) /\ WellFormed(sessionNonce)) =>
    /\ incorrectSigData.data # RawBytes(initialNonce) \o RawBytes(sessionNonce)
    /\ incorrectSigData.data
         # correctSignatureDataPrep(initialNonce, sessionNonce)
    /\ incorrectSigData.data
         # GoSignatureDataPrep(initialNonce, sessionNonce).data
    /\ sigData.impl # "none" => incorrectSigData.data # sigData.data

\* the concatenated strings decoded by Node next to the correct payload
NonHomomorphismWitness ==
  /\ incorrectSigData.impl = "ts"
  /\ sigData.impl # "none"
  /\ WellFormed(initialNonce)
  /\ WellFormed(sessionNonce)
  /\ Len(sigData.data) = 2 * NonceLen
  /\ Len(incorrectSigData.data) > 0

\* C5: key id format. The key id is the initial nonce, one space, the session
\* nonce, in this order, also in a session whose verification payload (session
\* nonce first) has been assembled.
KeyIdFormat ==
  keyID # <<>> =>
    /\ Len(keyID) = Len(initialNonce) + 1 + Len(sessionNonce)
    /\ SubSeq(keyID, 1, Len(initialNonce)) = initialNonce
    /\ keyID[Len(initialNonce) + 1] = SpaceChar
    /\ SubSeq(keyID, Len(initialNonce) + 2, Len(keyID)) = sessionNonce

\* a key id of two different nonces, with both payloads assembled
KeyIdFormatWitness ==
  /\ keyID # <<>>
  /\ initialNonce # sessionNonce
  /\ sigData.impl # "none"
  /\ verifyData.impl # "none"

\* a direct call of the Key Deriver that returned a key
Returned(op) == last.op = op /\ last.result.ok
\* the branch scalar of the call `last` records
LastDelta ==
  DeltaOf(last.keyID,
          to_public_key(last.counterparty, RootPoint(last.party))).val

\* C6: private derivation. derivePrivateKey returns the scalar
\* (d + branchScalar) mod n, a value in [0, n), with d the root's private
\* scalar; the harness prints that scalar.
PrivateDerivationCorrect ==
  /\ Returned("derivePrivateKey") =>
       /\ last.result.val \in Scalars
       /\ last.result.val
            = (rootKeys[last.party] + LastDelta) % CURVE_ORDER
  /\ \A p \in Parties :
       Derived(p) =>
         results[p].privateKeyHex
           = PrivateKeyToHex((rootKeys[p] + HarnessDelta(p)) % CURVE_ORDER)

\* a private derivation against another party whose sum passes n
PrivateDerivationWitness ==
  /\ Returned("derivePrivateKey")
  /\ last.counterparty.type = "other"
  /\ rootKeys[last.party] + LastDelta >= CURVE_ORDER

\* C7: derivePublicKey with forSelf = false and counterparty OtherParty(Q)
\* returns Q + branchScalar*G with the branch scalar keyed on Q: the point of
\* the scalar (q + delta) mod n where Q = q*G, and not the root's own point
\* plus delta*G unless the two points are the same.
CounterpartyDerivationCorrect ==
  /\ (Returned("derivePublicKey") /\ ~last.forSelf
        /\ last.counterparty.type = "other") =>
       LET Q     == last.counterparty.key
           P     == RootPoint(last.party)
           tweak == curve_multiply(DeltaOf(last.keyID, Q).val, G)
       IN  /\ last.result.val = curve_add(Q, tweak)
           /\ last.result.val
                = public_key((rootKeys[Peer(last.party)]
                                + DeltaOf(last.keyID, Q).val) % CURVE_ORDER)
           /\ Q # P => last.result.val # curve_add(P, tweak)
  /\ \A p \in Parties :
       Derived(p) =>
         results[p].publicKeyNotForSelfHex
           = PublicKeyToHex(
               public_key((rootKeys[Peer(p)] + HarnessDelta(p)) % CURVE_ORDER))

\* a derivation for a counterparty whose point is not the root's own
CounterpartyDerivationWitness ==
  /\ Returned("derivePublicKey")
  /\ ~last.forSelf
  /\ last.counterparty.type = "other"
  /\ last.counterparty.key # RootPoint(last.party)

DirectionalDistinctness ==
  \A p \in Parties :
    Derived(p) =>
      ((results[p].publicKeyForSelfHex = results[p].publicKeyNotForSelfHex)
         <=> (RootPoint(Peer(p)) = RootPoint(p)))

\* a harness run against a counterparty that is another point: two keys
DirectionalDistinctnessWitness ==
  /\ Derived("A")
  /\ RootPoint("B") # RootPoint("A")
  /\ results["A"].publicKeyForSelfHex # results["A"].publicKeyNotForSelfHex
  /\ results["A"].keyID = keyID

InvoiceFailures ==
  LET name == protocolID.protocolName
      derivation == last.op \in {"derivePrivateKey", "derivePublicKey"}
  IN  (last.op = "computeInvoiceNumber" \/ derivation) =>
        /\ (Len(name) = 0 \/ Len(name) > MaxProtocolNameLen) =>
             last.result = Fail("InvalidProtocolDescriptor")
        /\ (ValidProtocolName(name) /\ Len(last.keyID) = 0) =>
             last.result = Fail("InvalidKeyID")
        /\ (Len(name) = 0 \/ Len(last.keyID) = 0) => ~last.result.ok

\* a derivation asked for with an empty key id under the test protocol
InvoiceFailuresWitness ==
  /\ last.op = "derivePublicKey"
  /\ last.forSelf
  /\ protocolID = PROTOCOL_ID
  /\ last.keyID = <<>>
  /\ last.result = Fail("InvalidKeyID")

\* the comparison script has run all three harnesses and compared their outputs
Compared == comparison.status \in {"passed", "failed"}
ComparedValues ==
  {"privateKeyHex", "publicKeyForSelfHex", "publicKeyNotForSelfHex"}

DefectCharacterisation ==
  (Compared /\ pythonSdk = "current") =>
    LET py == comparison.python
        ts == comparison.typescript
        P  == RootPoint("A")
    IN  /\ py.privateKeyHex = ts.privateKeyHex
        /\ py.publicKeyNotForSelfHex = ts.publicKeyNotForSelfHex
        /\ comparison.priv_match
        /\ comparison.pub_not_self_match
        /\ RootPoint("B") # P =>
             /\ py.publicKeyForSelfHex
                  = PublicKeyToHex(
                      curve_add(P, curve_multiply(DeltaOf(py.keyID, P).val,
                                                  G)))
             /\ py.publicKeyForSelfHex # ts.publicKeyForSelfHex
             /\ py.publicKeyForSelfHex # py.publicKeyFromPrivateHex
             /\ ~comparison.pub_self_match
             /\ comparison.status = "failed"

\* a comparison the Python SDK as reported fails on the forSelf = true key
\* of the test identities
DefectCharacterisationWitness ==
  /\ comparison.status = "failed"
  /\ pythonSdk = "current"
  /\ rootKeys = TestRootKeys
  /\ comparison.priv_match
  /\ ~comparison.pub_self_match

\* the HMAC of an invoice number keyed on a point, reduced modulo n
ReducedHmac(invoice_number, Q) ==
  hmac_sha256(PublicKeyToHex(Q), invoice_number) % CURVE_ORDER

\* C15: the branch scalar is never 0. For the invoice number of the session
\* and every point of the curve other than the identity, the Branch Scalar
\* Deriver returns the reduced HMAC value when it lies in [1, n) and fails
\* with DegenerateScalar when it is 0; a public derivation against
\* OtherParty(Q) fails with DegenerateScalar exactly when the reduced HMAC
\* value keyed on Q is 0.
BranchScalarNonZero ==
  /\ InvoiceOf(keyID).ok =>
       \A Q \in Points :
         LET delta == DeltaOf(keyID, Q)
             reduced == ReducedHmac(InvoiceOf(keyID).val, Q)
         IN  IF reduced = 0 THEN delta = Fail("DegenerateScalar")
             ELSE /\ delta = Ok(reduced)
                  /\ delta.val \in 1..(CURVE_ORDER - 1)
  /\ (/\ last.op = "derivePublicKey"
      /\ last.counterparty.type = "other"
      /\ ~last.counterparty.key.inf
      /\ InvoiceOf(last.keyID).ok) =>
       ((ReducedHmac(InvoiceOf(last.keyID).val, last.counterparty.key) = 0)
          <=> (last.result = Fail("DegenerateScalar")))

\* a derivation against a counterparty whose reduced HMAC value is 0
BranchScalarNonZeroWitness ==
  /\ last.op = "derivePublicKey"
  /\ last.counterparty.type = "other"
  /\ ~last.counterparty.key.inf
  /\ last.result = Fail("DegenerateScalar")
  /\ InvoiceOf(last.keyID).ok

\* C16: private derivation is rejected for Self. A derivePrivateKey call with
\* counterparty Self fails with InvalidCounterpartyForPrivateDerivation and
\* returns no scalar, whatever the root and the key id; a call that returns a
\* scalar was made for OtherParty(Q) or Anyone.
SelfRejected ==
  last.op = "derivePrivateKey" =>
    /\ last.counterparty = Self =>
         last.result = Fail("InvalidCounterpartyForPrivateDerivation")
    /\ last.result.ok => last.counterparty.type \in {"other", "anyone"}
    /\ (last.counterparty.type = "anyone" /\ InvoiceOf(last.keyID).ok
          /\ DeltaOf(last.keyID, AnyonePoint).ok) => last.result.ok

\* a private derivation asked for Self under the handshake's key id
SelfRejectedWitness ==
  /\ last.op = "derivePrivateKey"
  /\ last.counterparty = Self
  /\ InvoiceOf(last.keyID).ok
  /\ ~last.result.ok

\* C20: the reference of the forSelf = true branch. A public key derived for
\* OtherParty(Q) with forSelf = true is the root's public point plus delta*G
\* with delta the branch scalar keyed on Q; the same delta is added whatever
\* the root is, so the tweak does not depend on the root's own public point.
ForSelfReference ==
  (/\ last.op = "derivePublicKey"
   /\ last.forSelf
   /\ last.counterparty.type = "other"
   /\ last.result.ok) =>
    LET Q == last.counterparty.key
        tweak == curve_multiply(DeltaOf(last.keyID, Q).val, G)
    IN  /\ last.result.val = curve_add(RootPoint(last.party), tweak)
        /\ \A d \in 1..(CURVE_ORDER - 1) :
             derive_public_key(d, protocolID, last.keyID, last.counterparty,
                               TRUE)
               = Ok(curve_add(public_key(d), tweak))

\* a forSelf = true derivation in which the branch scalar keyed on the root's
\* own point is another than the one keyed on the counterparty's
ForSelfReferenceWitness ==
  /\ last.op = "derivePublicKey"
  /\ last.forSelf
  /\ last.counterparty.type = "other"
  /\ last.result.ok
  /\ DeltaOf(last.keyID, RootPoint(last.party)).ok
  /\ DeltaOf(last.keyID, RootPoint(last.party))
       # DeltaOf(last.keyID, last.counterparty.key)

\* C17: nonce assembly validates its inputs. A payload is returned for
\* signing or verification only when both transport strings decode to exactly
\* 32 bytes, so a returned payload is exactly 64 bytes long.
AssemblyValidatesInputs ==
  \A d \in {sigData, verifyData} :
    (d.impl # "none" /\ ~d.fatal) =>
      /\ Decodes32(d.impl, initialNonce)
      /\ Decodes32(d.impl, sessionNonce)
      /\ Len(d.data) = 2 * NonceLen

\* C18: no silent default on error. When a transport string is not a valid
\* base64 text, nonce assembly surfaces a failure: it returns no byte array,
\* neither an empty nor a truncated one.
NoSilentDefault ==
  \A d \in {sigData, verifyData} :
    (d.impl # "none"
       /\ (StdDecodeString(initialNonce).err
             \/ StdDecodeString(sessionNonce).err)) =>
      d.fatal

\* C19: a derived key is never degenerate. No derivePrivateKey call returns
\* the scalar 0, no derivePublicKey call returns the identity, and no harness
\* run prints the zero scalar or the identity as a derived key.
DerivedKeyNeverDegenerate ==
  /\ Returned("derivePrivateKey") => last.result.val # 0
  /\ Returned("derivePublicKey") => ~last.result.val.inf
  /\ \A p \in Parties :
       Derived(p) =>
         /\ results[p].privateKeyHex # PrivateKeyToHex(0)
         /\ results[p].publicKeyForSelfHex # PublicKeyToHex(Infinity)
         /\ results[p].publicKeyNotForSelfHex # PublicKeyToHex(Infinity)

\* C21: Self with forSelf = false is rejected. A derivePublicKey call with
\* counterparty Self and forSelf = false fails with InvalidCounterparty and
\* returns no point.
SelfNotForSelfRejected ==
  (last.op = "derivePublicKey" /\ last.counterparty = Self /\ ~last.forSelf) =>
    last.result = Fail("InvalidCounterparty")

\* C22: failures of the Branch Scalar Deriver. The deriver fails with
\* InvalidReferencePoint on the identity point; and a derivePrivateKey call
\* for OtherParty(Q) under a well-formed invoice number fails with
\* DerivationFailed, returning no scalar, exactly when the deriver fails on Q,
\* be it with InvalidReferencePoint or with DegenerateScalar.
BranchFailures ==
  /\ InvoiceOf(keyID).ok =>
       DeltaOf(keyID, Infinity) = Fail("InvalidReferencePoint")
  /\ (/\ last.op = "derivePrivateKey"
      /\ last.counterparty.type = "other"
      /\ InvoiceOf(last.keyID).ok) =>
       LET delta == DeltaOf(last.keyID, last.counterparty.key)
       IN  /\ delta.ok => last.result.ok
           /\ ~delta.ok =>
                /\ delta.err \in {"InvalidReferencePoint", "DegenerateScalar"}
                /\ last.result = Fail("DerivationFailed")
           /\ last.counterparty.key.inf =>
                delta = Fail("InvalidReferencePoint")

\* a private derivation against the identity point
BranchFailuresWitness ==
  /\ last.op = "derivePrivateKey"
  /\ last.counterparty = OtherParty(Infinity)
  /\ InvoiceOf(last.keyID).ok
  /\ last.result = Fail("DerivationFailed")

\* C23: Anyone is the fixed base point. A derivePrivateKey call with
\* counterparty Anyone returns what derivePrivateKey returns for
\* OtherParty(anyonePoint) with the same root, protocol and key id, and when
\* it returns a scalar it is (d + delta) mod n with delta keyed on that point.
AnyoneResolution ==
  (last.op = "derivePrivateKey" /\ last.counterparty = Anyone) =>
    /\ last.result
         = derivePrivateKey(rootKeys[last.party], protocolID, last.keyID,
                            OtherParty(AnyonePoint))
    /\ last.result.ok =>
         last.result.val
           = (rootKeys[last.party] + DeltaOf(last.keyID, AnyonePoint).val)
               % CURVE_ORDER

\* a private derivation for Anyone by a root whose own point is not the
\* "anyone" point
AnyoneResolutionWitness ==
  /\ Returned("derivePrivateKey")
  /\ last.counterparty = Anyone
  /\ RootPoint(last.party) # AnyonePoint
  /\ DeltaOf(last.keyID, RootPoint(last.party)) # DeltaOf(last.keyID, AnyonePoint)

\* C24: the fixed nonces. Decoding INITIAL_NONCE_B64 followed by
\* SESSION_NONCE_B64 as one Base64 value yields exactly 32 bytes, those of the
\* initial nonce, in either implementation, whereas decoding each and
\* concatenating yields 64 bytes.
FixedNonceLengths ==
  (initialNonce = INITIAL_NONCE_B64 /\ sessionNonce = SESSION_NONCE_B64) =>
    /\ incorrectSigData.impl # "none" =>
         /\ Len(incorrectSigData.data) = NonceLen
         /\ incorrectSigData.data = INITIAL_NONCE_BYTES
    /\ sigData.impl # "none" =>
         /\ Len(sigData.data) = 2 * NonceLen
         /\ sigData.data = INITIAL_NONCE_BYTES \o SESSION_NONCE_BYTES

\* both approaches run by the TypeScript test on the fixed nonces
FixedNonceLengthsWitness ==
  /\ initialNonce = INITIAL_NONCE_B64
  /\ sessionNonce = SESSION_NONCE_B64
  /\ incorrectSigData.impl = "ts"
  /\ sigData.impl = "ts"
  /\ Len(incorrectSigData.data) < Len(sigData.data)

\* what a Key Deriver call returns for the arguments a call record names,
\* made on the root identity as it was constructed
CallAlone(c) ==
  IF c.op = "derivePrivateKey"
  THEN derivePrivateKey(TestRootKeys[c.party], PROTOCOL_ID, c.keyID,
                        c.counterparty)
  ELSE derive_public_key(TestRootKeys[c.party], PROTOCOL_ID, c.keyID,
                         c.counterparty, c.forSelf)
\* the arguments of a call record, and whether it repeats the call before it
CallOf(c) == <<c.op, c.party, c.keyID, c.counterparty, c.forSelf, c.repeated>>
\* what nonce assembly returns for two transport strings
AssemblyAlone(impl, nonce1, nonce2) ==
  IF impl = "go" THEN GoSignatureDataPrep(nonce1, nonce2).data
  ELSE correctSignatureDataPrep(nonce1, nonce2)

RunAlone(c) ==
  IF c.op = "correctSignatureDataPrep"
  THEN Ok(correctSignatureDataPrep(c.nonce1, c.nonce2))
  ELSE IF c.op = "derivePrivateKey"
  THEN derivePrivateKey(rootKeys["A"], protocolID, c.keyID, c.counterparty)
  ELSE derive_public_key(rootKeys["A"], protocolID, c.keyID, c.counterparty,
                         c.forSelf)

InputsUnchanged ==
  /\ View(mem.heap, mem.initial) = RawBytes(initialNonce)
  /\ View(mem.heap, mem.session) = RawBytes(sessionNonce)
  /\ mem.initial.len = NonceLen
  /\ mem.session.len = NonceLen
  /\ mem.sigImpl # "none" =>
       /\ mem.sigData.array \notin {mem.initial.array, mem.session.array}
       /\ View(mem.heap, mem.sigData)
            = RawBytes(initialNonce) \o RawBytes(sessionNonce)
  /\ mem.verifyImpl # "none" =>
       /\ mem.verifyData.array \notin {mem.initial.array, mem.session.array}
       /\ View(mem.heap, mem.verifyData)
            = RawBytes(sessionNonce) \o RawBytes(initialNonce)

\* both payloads built by the Go tests' append, the verification one after
\* the signing one
InputsUnchangedWitness ==
  /\ mem.sigImpl = "go"
  /\ mem.verifyImpl = "go"
  /\ mem.verifyData.array > mem.sigData.array
  /\ initialNonce # sessionNonce

\* C28: role-swap duality. For two 32-byte nonces, the verification payload
\* is the signing payload of the same two nonces with their roles exchanged,
\* and a signing payload and a verification payload assembled of the same
\* pair are equal if and only if the two nonces are equal; for the fixed
\* nonces the two are the expected payloads, which differ.
RoleSwapDuality ==
  (WellFormed(initialNonce) /\ WellFormed(sessionNonce)) =>
    /\ verifyData.impl # "none" =>
         /\ verifyData.data
              = AssemblyAlone(verifyData.impl, sessionNonce, initialNonce)
         /\ verifyData.data
              = correctSignatureDataPrep(sessionNonce, initialNonce)
    /\ (sigData.impl # "none" /\ verifyData.impl # "none") =>
         ((sigData.data = verifyData.data) <=> (initialNonce = sessionNonce))
    /\ (/\ initialNonce = INITIAL_NONCE_B64
        /\ sessionNonce = SESSION_NONCE_B64
        /\ sigData.impl # "none"
        /\ verifyData.impl # "none") =>
         /\ sigData.data = EXPECTED_SIG_DATA_SIGNING
         /\ verifyData.data = EXPECTED_SIG_DATA_VERIFICATION
         /\ EXPECTED_SIG_DATA_SIGNING # EXPECTED_SIG_DATA_VERIFICATION

\* both payloads of a handshake whose two nonces are equal, assembled by
\* different implementations
RoleSwapDualityWitness ==
  /\ WellFormed(initialNonce)
  /\ initialNonce = sessionNonce
  /\ sigData.impl = "ts"
  /\ verifyData.impl = "go"
  /\ sigData.data = verifyData.data

\* the transport strings of the model, none of which holds a space
TransportStrings == WellFormedNonces \cup MalformedNonces

\* C29: key-identifier injectivity. The key id made of the two nonces of the
\* handshake is made of no other ordered pair of transport strings, the pair
\* in exchanged roles included when the nonces differ, and neither is its
\* invoice number.
KeyIdInjectivity ==
  keyID # <<>> =>
    /\ \A c, d \in TransportStrings :
         /\ (makeKeyId(c, d) = keyID)
              <=> (c = initialNonce /\ d = sessionNonce)
         /\ (InvoiceOf(makeKeyId(c, d)) = InvoiceOf(keyID))
              <=> (c = initialNonce /\ d = sessionNonce)
    /\ initialNonce # sessionNonce =>
         makeKeyId(sessionNonce, initialNonce) # keyID
    /\ \A c \in TransportStrings : \A i \in 1..Len(c) : c[i] # SpaceChar

\* the key id of the fixed nonces in exchanged roles
KeyIdInjectivityWitness ==
  /\ keyID # <<>>
  /\ initialNonce = SESSION_NONCE_B64
  /\ sessionNonce = INITIAL_NONCE_B64
  /\ InvoiceOf(keyID).ok

====
